---- MODULE Spec2Model ----
(***************************************************************************)
(* Retrieval-augmented answer engine: chunker, index build, retriever,     *)
(* link/HTML sanitizers and the ask_gemini answer state machine.           *)
(*                                                                         *)
(* Text is modelled as a sequence of lexemes.  Each lexeme is a literal    *)
(* piece of the Python string (one character such as " " or "#", or an     *)
(* indivisible word such as "iotmanufacturingtech.com"); the string is the *)
(* concatenation of its lexemes.  No lexeme other than the ones tested by  *)
(* the code contains a character the code's tests and regular expressions  *)
(* look for, so substring tests and regex matches on the string are tests  *)
(* on the lexeme sequence.                                                 *)
(***************************************************************************)
EXTENDS Integers, Sequences, FiniteSets, TLC

VARIABLES
  sKind, sIn, sOut1, sOut2, sPc,     \* sanitizer runs: input, 1st and 2nd result
  cTxt, cMaxLen, cChunks, cPc,       \* chunker run: txt, max_len, returned chunks
  ntotal, meta,                      \* persisted index (row count) and metadata rows
  rK, rI, rResults, rFault, rPc,     \* retrieve run: k, search hits I[0], returned rows
  aQuery0, aQuery, aChunks0, aChunks, \* ask_gemini: arguments as passed and as rebound
  aContext, aPrompt,                 \* assembled context and prompt
  aPc, aOutcome, aReturn,            \* position, returned/raised, returned string
  aGen, aResp,                       \* what the generation call did, its response
  genCalls, retrieveCalls,           \* calls made to generate_content and retrieve
  bN, bBatch, bPos, bVecs, bEmb, bPc \* index build: records, batch, loop index, vecs, emb

sanVars == <<sKind, sIn, sOut1, sOut2, sPc>>
chunkVars == <<cTxt, cMaxLen, cChunks, cPc>>
storeVars == <<ntotal, meta>>
retVars == <<rK, rI, rResults, rFault, rPc>>
askVars == <<aQuery0, aQuery, aChunks0, aChunks, aContext, aPrompt, aPc, aOutcome,
             aReturn, aGen, aResp, genCalls, retrieveCalls>>

buildVars == <<bN, bBatch, bPos, bVecs, bEmb, bPc>>

vars == <<sanVars, chunkVars, storeVars, retVars, askVars, buildVars>>

\* What a step of one component leaves alone.
SanFrame == UNCHANGED <<chunkVars, storeVars, retVars, askVars, buildVars>>
ChunkFrame == UNCHANGED <<sanVars, storeVars, retVars, askVars, buildVars>>
RetFrame == UNCHANGED <<sanVars, chunkVars, askVars, buildVars>>
AskFrame == UNCHANGED <<sanVars, chunkVars, retVars, buildVars>>
BuildFrame == UNCHANGED <<sanVars, chunkVars, retVars, askVars>>

(***************************************************************************)
(* Bounds of the inputs.                                                   *)
(***************************************************************************)
MaxUrlLen == 4
MaxSegments == 2
MaxTextLen == 5
MaxMaxLen == 3
MaxRows == 3
MaxMeta == 3
MaxK == 4
MaxRecords == 5
SmallBatch == 2

\* batch=32, the default of embed_many
DEFAULT_BATCH == 32

(***************************************************************************)
(* Lexemes.                                                                *)
(***************************************************************************)
SP == " "
NL == "\n"
DQ == "\""
SQ == "'"
TRUSTED_DOMAIN == "iotmanufacturingtech.com"

Whitespace == {SP, NL}

HOMEPAGE_URL == <<"https://", TRUSTED_DOMAIN>>
CONTACT_US_URL == <<"https://", TRUSTED_DOMAIN, "/", "contact-us", "/">>

\* Sequences over S of length 0..n.
SeqsUpTo(S, n) == UNION {[1..m -> S] : m \in 0..n}

\* `x in s` for a lexeme x.
Contains(s, x) == \E i \in 1..Len(s) : s[i] = x

\* str.strip(): leading and trailing whitespace removed.
Strip(s) ==
  LET ns == {i \in 1..Len(s) : s[i] \notin Whitespace}
  IN  IF ns = {} THEN <<>>
      ELSE SubSeq(s, CHOOSE i \in ns : \A j \in ns : i <= j,
                     CHOOSE i \in ns : \A j \in ns : j <= i)

\* The schemes of the denylist regex, as they can be spelled under re.I.
DeniedSchemes == {"javascript:", "JavaScript:", "data:", "vbscript:", "mailto:"}

\* re.match(r"^(javascript|data|vbscript|mailto):", url, re.I)
MatchesDeniedScheme(url) == url # <<>> /\ url[1] \in DeniedSchemes

\* re.sub(c + r".*$", "", url): "." does not match a newline and "$" matches
\* at the end of the string or just before a newline that ends it, so the
\* leftmost c whose rest of the string holds no newline other than a final one
\* is removed together with that rest (a final newline is kept).
ReSubToEnd(url, c) ==
  LET n == Len(url)
      ok(i) == /\ url[i] = c
               /\ \A j \in (i+1)..(n-1) : url[j] # NL
      hits == {i \in 1..n : ok(i)}
  IN  IF hits = {} THEN url
      ELSE LET i == CHOOSE h \in hits : \A g \in hits : h <= g
           IN  IF i < n /\ url[n] = NL
               THEN SubSeq(url, 1, i-1) \o <<NL>>
               ELSE SubSeq(url, 1, i-1)

\* _sanitize_url for a str argument.
_sanitize_url(url) ==
  IF url = <<>> THEN HOMEPAGE_URL
  ELSE LET u == Strip(url)
       IN  IF MatchesDeniedScheme(u) THEN HOMEPAGE_URL
           ELSE IF ~Contains(u, TRUSTED_DOMAIN) THEN HOMEPAGE_URL
           ELSE ReSubToEnd(ReSubToEnd(u, "#"), "?")

(***************************************************************************)
(* _sanitize_anchor_html                                                   *)
(***************************************************************************)
AOpen == {"<a", "<A"}         \* "<a" under re.I
AClose == {"</a", "</A"}      \* "</a" under re.I; the tag's ">" is the next lexeme
HrefEq == {"href=", "HREF="}  \* "href=" under re.I

\* Least element of a non-empty set of positions; 0 for the empty set.
MinPos(S) == IF S = {} THEN 0 ELSE CHOOSE i \in S : \A j \in S : i <= j

\* A match of  <a\s+href="(?P<href>[^"]+)"[^>]*>(?P<text>.*?)</a>  (re.I|re.S)
\* that starts at position i of s: [ok, href, text, end].
MatchAt(s, i) ==
  LET n    == Len(s)
      none == [ok |-> FALSE, href |-> <<>>, text |-> <<>>, end |-> 0]
      \* \s+ : the run of whitespace after "<a"; h is the first non-space after it
      h    == MinPos({j \in (i+1)..n : s[j] \notin Whitespace})
      \* [^"]+" : q is the closing quote
      q    == MinPos({j \in (h+2)..n : s[j] = DQ})
      \* [^>]*> : g is the first ">"
      g    == MinPos({j \in (q+1)..n : s[j] = ">"})
      \* .*?</a> : t is the first "</a" followed by ">"
      t    == MinPos({j \in (g+1)..(n-1) : s[j] \in AClose /\ s[j+1] = ">"})
  IN  IF s[i] \notin AOpen THEN none
      ELSE IF h = 0 \/ h = i + 1 THEN none
      ELSE IF s[h] \notin HrefEq \/ h + 1 > n THEN none
      ELSE IF s[h+1] # DQ THEN none
      ELSE IF q = 0 \/ q = h + 2 THEN none
      ELSE IF g = 0 THEN none
      ELSE IF t = 0 THEN none
      ELSE [ok |-> TRUE, href |-> SubSeq(s, h+2, q-1),
            text |-> SubSeq(s, g+1, t-1), end |-> t+1]

\* ' target="_blank" rel="noopener noreferrer">' of the replacement.
ForcedAttrs ==
  <<DQ, SP, "target=", DQ, "_blank", DQ, SP, "rel=", DQ, "noopener noreferrer", DQ, ">">>

\* repl(m)
repl(href, text) ==
  <<"<a", SP, "href=", DQ>> \o _sanitize_url(href) \o ForcedAttrs \o text \o <<"</a", ">">>

\* pattern.sub(repl, html) from position i on: leftmost, non-overlapping matches.
RECURSIVE PatternSub(_, _)
PatternSub(s, i) ==
  IF i > Len(s) THEN <<>>
  ELSE LET m == MatchAt(s, i)
       IN  IF m.ok THEN repl(m.href, m.text) \o PatternSub(s, m.end + 1)
           ELSE <<s[i]>> \o PatternSub(s, i + 1)

_sanitize_anchor_html(html) ==
  IF html = <<>> THEN html ELSE PatternSub(html, 1)

(***************************************************************************)
(* Chunker: split_text                                                     *)
(***************************************************************************)
\* len() of a text: the lexeme "bb" is two characters, every other one is one.
CharLen(x) == IF x = "bb" THEN 2 ELSE 1

RECURSIVE StrLen(_)
StrLen(s) == IF s = <<>> THEN 0 ELSE CharLen(Head(s)) + StrLen(Tail(s))

\* txt.split("\n"): the pieces between newlines (one more piece than newlines).
RECURSIVE SplitLines(_)
SplitLines(txt) ==
  LET nl == MinPos({i \in 1..Len(txt) : txt[i] = NL})
  IN  IF nl = 0 THEN <<txt>>
      ELSE <<SubSeq(txt, 1, nl - 1)>> \o SplitLines(SubSeq(txt, nl + 1, Len(txt)))

\* [p.strip() for p in txt.split("\n") if p.strip()]
RECURSIVE StrippedNonEmpty(_)
StrippedNonEmpty(ps) ==
  IF ps = <<>> THEN <<>>
  ELSE IF Strip(Head(ps)) = <<>> THEN StrippedNonEmpty(Tail(ps))
  ELSE <<Strip(Head(ps))>> \o StrippedNonEmpty(Tail(ps))

Paras(txt) == StrippedNonEmpty(SplitLines(txt))

\* "\n\n".join(cur)
RECURSIVE JoinParas(_)
JoinParas(cur) ==
  IF cur = <<>> THEN <<>>
  ELSE IF Len(cur) = 1 THEN cur[1]
  ELSE cur[1] \o <<NL, NL>> \o JoinParas(Tail(cur))

\* Dropped final flush: the paragraphs still in cur are lost.
FinalFlush_dropped(chunks, cur) == chunks

\* if cur: chunks.append("\n\n".join(cur))
FinalFlush(chunks, cur) ==
  IF cur # <<>> THEN Append(chunks, JoinParas(cur)) ELSE chunks

\* The for loop of split_text from paragraph i on.
RECURSIVE SplitLoop(_, _, _, _, _, _)
SplitLoop(paras, i, chunks, cur, size, max_len) ==
  IF i > Len(paras) THEN FinalFlush(chunks, cur)
  ELSE LET size2 == size + StrLen(paras[i])
           cur2  == Append(cur, paras[i])
       IN  IF size2 >= max_len
           THEN SplitLoop(paras, i + 1, Append(chunks, JoinParas(cur2)), <<>>, 0, max_len)
           ELSE SplitLoop(paras, i + 1, chunks, cur2, size2, max_len)

split_text(txt, max_len) == SplitLoop(Paras(txt), 1, <<>>, <<>>, 0, max_len)

TextAlphabet == {"a", "bb", SP, NL}
TextInputs == SeqsUpTo(TextAlphabet, MaxTextLen)

ChunkIdle == cTxt = <<>> /\ cMaxLen = 0 /\ cChunks = <<>> /\ cPc = "idle"

ChunkRun ==
  /\ cTxt \in TextInputs
  /\ cMaxLen \in 1..MaxMaxLen
  /\ cChunks = <<>>
  /\ cPc = "start"

SplitText ==
  /\ cPc = "start"
  /\ cChunks' = split_text(cTxt, cMaxLen)
  /\ cPc' = "done"
  /\ UNCHANGED <<cTxt, cMaxLen>>
  /\ ChunkFrame

\* passage.split("\n\n"), scanning left to right.
RECURSIVE SplitOnBlankLine(_)
SplitOnBlankLine(s) ==
  LET k == MinPos({i \in 1..(Len(s) - 1) : s[i] = NL /\ s[i+1] = NL})
  IN  IF k = 0 THEN <<s>>
      ELSE <<SubSeq(s, 1, k - 1)>> \o SplitOnBlankLine(SubSeq(s, k + 2, Len(s)))

RECURSIVE ParasOfChunks(_)
ParasOfChunks(chunks) ==
  IF chunks = <<>> THEN <<>>
  ELSE SplitOnBlankLine(Head(chunks)) \o ParasOfChunks(Tail(chunks))

\* C9: the paragraphs of the returned passages, in order, are exactly the
\* stripped non-empty newline-delimited paragraphs of the input, and no
\* returned passage is empty.
C9_ChunksReproduceParagraphs ==
  cPc = "done" =>
    /\ ParasOfChunks(cChunks) = Paras(cTxt)
    /\ \A i \in 1..Len(cChunks) : cChunks[i] # <<>>

\* A run that closed a passage of two paragraphs at the threshold and emitted a
\* final partial passage.
C9_Witness ==
  /\ cPc = "done"
  /\ Len(cChunks) >= 2
  /\ \E i \in 1..Len(cChunks) : Len(SplitOnBlankLine(cChunks[i])) >= 2
  /\ StrLen(cChunks[Len(cChunks)]) < cMaxLen

(***************************************************************************)
(* Persisted index and metadata; retrieve                                  *)
(***************************************************************************)
\* URLs of the stored pages: on the site, off the site, with query and fragment.
RowUrls ==
  << <<"https://", TRUSTED_DOMAIN, "/", "products", "/">>,
     <<"https://", "evil.com">>,
     <<"https://", TRUSTED_DOMAIN, "/", "products", "/", "?", "utm=1", "#", "x">> >>

\* The metadata row written for chunk i (0-based): {id, url, title, text}.
Row(i) ==
  [isStr |-> FALSE, id |-> i, url |-> RowUrls[(i % Len(RowUrls)) + 1],
   title |-> <<SP, "Title">>, text |-> <<"passage", SP>>]

\* _load_meta(): the rows of the metadata file, in file order.
MetaRows(n) == [i \in 1..n |-> Row(i - 1)]

\* Sequences without repetition, of length n, over S.
Injections(S, n) ==
  {f \in [1..n -> S] : \A a, b \in 1..n : a # b => f[a] # f[b]}

Min(a, b) == IF a <= b THEN a ELSE b

\* index.search(q, k)[1][0]: the min(k, ntotal) nearest rows, distinct, in the
\* order of their scores (any order: the scores depend on the vectors), then
\* -1 for the missing hits.
SearchHits(nrows, k) ==
  {f \o [j \in 1..(k - Min(k, nrows)) |-> -1] :
     f \in Injections(0..(nrows - 1), Min(k, nrows))}

\* Bounds test without the lower bound: -1 passes.
InBounds_noLower(i, n) == i < n

\* 0 <= i < len(meta)
InBounds(i, n) == 0 <= i /\ i < n

\* meta[i] of a Python list: negative i counts from the end, anything outside
\* [-len, len) is an IndexError.
PyIndexOk(list, i) == -Len(list) <= i /\ i < Len(list)
PyIndex(list, i) == IF i >= 0 THEN list[i + 1] ELSE list[Len(list) + i + 1]

\* The loop of retrieve over I[0] from position j on: [fault, results].
RECURSIVE CollectHits(_, _, _, _)
CollectHits(I, j, rows, results) ==
  IF j > Len(I) THEN [fault |-> FALSE, results |-> results]
  ELSE IF InBounds(I[j], Len(rows))
       THEN IF PyIndexOk(rows, I[j])
            THEN CollectHits(I, j + 1, rows, Append(results, PyIndex(rows, I[j])))
            ELSE [fault |-> TRUE, results |-> results]
       ELSE CollectHits(I, j + 1, rows, results)

StoreAny ==
  /\ ntotal \in 0..MaxRows
  /\ \E n \in 0..MaxMeta : meta = MetaRows(n)

StoreIdle == ntotal = 0 /\ meta = <<>>

RetIdle == rK = 0 /\ rI = <<>> /\ rResults = <<>> /\ rFault = FALSE /\ rPc = "idle"

RetRun ==
  /\ rK \in 1..MaxK
  /\ rI = <<>>
  /\ rResults = <<>>
  /\ rFault = FALSE
  /\ rPc = "embed"

\* embed_query returns; the search and the loop over its hits run.
RetrieveReturns ==
  /\ rPc = "embed"
  /\ \E I \in SearchHits(ntotal, rK) :
       LET r == CollectHits(I, 1, meta, <<>>)
       IN  /\ rI' = I
           /\ rResults' = r.results
           /\ rFault' = r.fault
  /\ rPc' = "returned"
  /\ UNCHANGED <<rK, storeVars>>
  /\ RetFrame

\* genai.embed_content raises in embed_query: retrieve has no handler.
RetrieveEmbedRaises ==
  /\ rPc = "embed"
  /\ rPc' = "raised"
  /\ UNCHANGED <<rK, rI, rResults, rFault, storeVars>>
  /\ RetFrame

RetNext ==
  \/ RetrieveReturns
  \/ RetrieveEmbedRaises

\* The hits of I that are row numbers of rows, in order.
RECURSIVE ValidHits(_, _)
ValidHits(I, n) ==
  IF I = <<>> THEN <<>>
  ELSE IF 0 <= Head(I) /\ Head(I) < n THEN <<Head(I)>> \o ValidHits(Tail(I), n)
  ELSE ValidHits(Tail(I), n)

\* C8: retrieve returns exactly the rows meta[i] for the hits i with
\* 0 <= i < len(meta), in search order; every other hit (the -1 padding, a row
\* the metadata does not have) is dropped without a fault, so at most
\* min(k, len(meta)) rows are returned.
C8_RetrieveDropsOutOfRange ==
  rPc = "returned" =>
    LET v == ValidHits(rI, Len(meta))
    IN  /\ ~rFault
        /\ Len(rResults) = Len(v)
        /\ \A j \in 1..Len(v) : rResults[j] = Row(v[j])
        /\ Len(rResults) <= Min(rK, Len(meta))

\* A search that returned -1 padding and a row beyond the metadata, and kept a row.
C8_Witness ==
  /\ rPc = "returned"
  /\ \E j \in 1..Len(rI) : rI[j] = -1
  /\ \E j \in 1..Len(rI) : rI[j] >= Len(meta)
  /\ rResults # <<>>

(***************************************************************************)
(* Inputs of the sanitizer runs.                                           *)
(***************************************************************************)
UrlAlphabet == {SP, NL, "https://", TRUSTED_DOMAIN, "evil.com", "/", "#", "?", "javascript:"}
UrlInputs == SeqsUpTo(UrlAlphabet, MaxUrlLen)

HrefValues ==
  { HOMEPAGE_URL,
    <<"https://", TRUSTED_DOMAIN, "/", "products", "/", "?", "utm=1", "#", "x">>,
    <<"https://", "evil.com">>,
    <<"https://", "evil.com", "/", "#", TRUSTED_DOMAIN>>,
    <<"javascript:", "evil()">> }

Quotes == {<<DQ>>, <<SQ>>, <<>>}
PreAttrs == {<<>>, <<"target=", DQ, "_self", DQ, SP>>}
PostAttrs == {<<>>, <<SP, "onclick=", DQ, "evil()", DQ>>}

Anchor(pre, q, href, post, text) ==
  <<"<a", SP>> \o pre \o <<"href=">> \o q \o href \o q \o post \o <<">">>
    \o text \o <<"</a", ">">>

\* Link texts: plain, or an anchor nested in the link text.
NestedHrefs == {<<"https://", "evil.com">>, <<"javascript:", "evil()">>}
AnchorTexts ==
  {<<"Click">>} \cup {Anchor(<<>>, <<DQ>>, h, <<>>, <<"Click">>) : h \in NestedHrefs}

Segments ==
  {<<"text">>} \cup
  {Anchor(pre, q, h, post, t) :
     pre \in PreAttrs, q \in Quotes, h \in HrefValues, post \in PostAttrs, t \in AnchorTexts}

RECURSIVE Concat(_)
Concat(ss) == IF ss = <<>> THEN <<>> ELSE Head(ss) \o Concat(Tail(ss))

HtmlInputs == {Concat(ss) : ss \in SeqsUpTo(Segments, MaxSegments)}

(***************************************************************************)
(* Sanitizer runs: the function is applied to an input and then to its own *)
(* result.                                                                 *)
(***************************************************************************)
SanIdle ==
  sKind = "idle" /\ sIn = <<>> /\ sOut1 = <<>> /\ sOut2 = <<>> /\ sPc = 0

SanRun ==
  /\ \/ sKind = "url" /\ sIn \in UrlInputs
     \/ sKind = "html" /\ sIn \in HtmlInputs
  /\ sOut1 = <<>>
  /\ sOut2 = <<>>
  /\ sPc = 0

SanitizeUrl ==
  /\ sKind = "url" /\ sPc = 0
  /\ sOut1' = _sanitize_url(sIn)
  /\ sPc' = 1
  /\ UNCHANGED <<sKind, sIn, sOut2>>
  /\ SanFrame

SanitizeUrlAgain ==
  /\ sKind = "url" /\ sPc = 1
  /\ sOut2' = _sanitize_url(sOut1)
  /\ sPc' = 2
  /\ UNCHANGED <<sKind, sIn, sOut1>>
  /\ SanFrame

SanitizeAnchorHtml ==
  /\ sKind = "html" /\ sPc = 0
  /\ sOut1' = _sanitize_anchor_html(sIn)
  /\ sPc' = 1
  /\ UNCHANGED <<sKind, sIn, sOut2>>
  /\ SanFrame

SanitizeAnchorHtmlAgain ==
  /\ sKind = "html" /\ sPc = 1
  /\ sOut2' = _sanitize_anchor_html(sOut1)
  /\ sPc' = 2
  /\ UNCHANGED <<sKind, sIn, sOut1>>
  /\ SanFrame

SanNext ==
  \/ SanitizeUrl
  \/ SanitizeUrlAgain
  \/ SanitizeAnchorHtml
  \/ SanitizeAnchorHtmlAgain


(***************************************************************************)
(* Index build: embed_many, index.add, metadata write                      *)
(*                                                                         *)
(* A vector is identified by the number of the text it embeds (0-based), a *)
(* matrix by the sequence of its rows.                                     *)
(***************************************************************************)
\* range(i, i + batch) cut at len(strs): the texts of strs[i:i+batch].
BatchIds(i, batch, n) == [j \in 1..(Min(i + batch, n) - i) |-> i + j - 1]

\* The rows one call of embed_content adds to vecs, by the shape of its result.
\*   "embedding", matrix: res["embedding"] holds one vector per text of the batch;
\*   "embedding", single: res["embedding"] is one flat vector (the first text's);
\*   "data", j:           res.get("data", []) holds the vectors of the first j
\*                        texts (j = 0 also for a dict without "data").
BatchResults(ids) ==
  {ids} \cup {SubSeq(ids, 1, 1)} \cup {SubSeq(ids, 1, j) : j \in 0..Len(ids)}

BuildIdle ==
  bN = 0 /\ bBatch = 0 /\ bPos = 0 /\ bVecs = <<>> /\ bEmb = <<>> /\ bPc = "idle"

BuildRun ==
  /\ bN \in 0..MaxRecords
  /\ bBatch \in {SmallBatch, DEFAULT_BATCH}
  /\ bPos = 0
  /\ bVecs = <<>>
  /\ bEmb = <<>>
  /\ bPc = "embed"

\* One pass of the loop of embed_many: embed_content returns for the batch at
\* bPos and its vectors are added to vecs.
EmbedBatchReturns ==
  /\ bPc = "embed"
  /\ bPos < bN
  /\ \E rows \in BatchResults(BatchIds(bPos, bBatch, bN)) : bVecs' = bVecs \o rows
  /\ bPos' = bPos + bBatch
  /\ UNCHANGED <<bN, bBatch, bEmb, bPc, storeVars>>
  /\ BuildFrame

\* embed_content raises: the build script stops.
EmbedBatchRaises ==
  /\ bPc = "embed"
  /\ bPos < bN
  /\ bPc' = "aborted"
  /\ UNCHANGED <<bN, bBatch, bPos, bVecs, bEmb, storeVars>>
  /\ BuildFrame

\* The loop is over: np.vstack(vecs) raises ValueError for an empty list, else
\* emb is normalized and added to a new index, the index is written, and one
\* metadata line per record is written.
StackAndWrite ==
  /\ bPc = "embed"
  /\ bPos >= bN
  /\ IF bVecs = <<>>
     THEN /\ bPc' = "aborted"
          /\ UNCHANGED <<bEmb, storeVars>>
     ELSE /\ bEmb' = bVecs
          /\ ntotal' = Len(bVecs)
          /\ meta' = MetaRows(bN)
          /\ bPc' = "done"
  /\ UNCHANGED <<bN, bBatch, bPos, bVecs>>
  /\ BuildFrame

\* C7: after a build over N records the index holds exactly N rows, row i is
\* the embedding of records[i].text, and the metadata file holds N lines, for
\* every result of the embedding service that embed_many accepts.
C7_IndexAlignedWithMetadata ==
  bPc = "done" =>
    /\ ntotal = bN
    /\ Len(meta) = bN
    /\ \A i \in 1..Len(bEmb) : bEmb[i] = i - 1

(***************************************************************************)
(* Context assembly                                                        *)
(***************************************************************************)
\* "sep".join(blocks)
RECURSIVE Join(_, _)
Join(blocks, sep) ==
  IF blocks = <<>> THEN <<>>
  ELSE IF Len(blocks) = 1 THEN blocks[1]
  ELSE blocks[1] \o sep \o Join(Tail(blocks), sep)

\* f"TITLE: {title}\nURL: {url}\n\n{text}"
Block(r) ==
  <<"TITLE: ">> \o Strip(r.title) \o <<NL, "URL: ">> \o _sanitize_url(r.url)
    \o <<NL, NL>> \o Strip(r.text)

_format_context(retrieved) ==
  Join([i \in 1..Len(retrieved) |-> Block(retrieved[i])], <<NL, NL, "---", NL, NL>>)

\* The loop of _allowed_links: sanitized URLs in first-seen order.
RECURSIVE UniqueUrls(_, _)
UniqueUrls(retrieved, urls) ==
  IF retrieved = <<>> THEN urls
  ELSE LET u == _sanitize_url(Head(retrieved).url)
       IN  IF \E i \in 1..Len(urls) : urls[i] = u
           THEN UniqueUrls(Tail(retrieved), urls)
           ELSE UniqueUrls(Tail(retrieved), Append(urls, u))

_allowed_links(retrieved) ==
  LET urls == UniqueUrls(retrieved, <<>>)
      withHome == IF \E i \in 1..Len(urls) : urls[i] = HOMEPAGE_URL
                  THEN urls ELSE Append(urls, HOMEPAGE_URL)
  IN  IF \E i \in 1..Len(urls) : urls[i] = CONTACT_US_URL
      THEN withHome ELSE Append(withHome, CONTACT_US_URL)

\* [{"url": HOMEPAGE_URL, "title": "", "text": t} for t in retrieved_chunks]
\* when the first chunk is a str.
WrapRaw(chunks) ==
  IF chunks # <<>> /\ chunks[1].isStr
  THEN [i \in 1..Len(chunks) |->
          [isStr |-> FALSE, id |-> chunks[i].id, url |-> HOMEPAGE_URL,
           title |-> <<>>, text |-> chunks[i].text]]
  ELSE chunks

(***************************************************************************)
(* ask_gemini                                                              *)
(***************************************************************************)
\* str.lower() of a lexeme.
LowerLex(x) ==
  CASE x = "Hi" -> "hi"
    [] x = "HEY" -> "hey"
    [] x = "Hello" -> "hello"
    [] OTHER -> x

\* query.strip().lower()
Normalize(q) == LET t == Strip(q) IN [i \in 1..Len(t) |-> LowerLex(t[i])]

Greetings == {<<"hi">>, <<"hello">>, <<"hey">>, <<"halo">>}

MenuKeys == {<<"1">>, <<"2">>, <<"3">>, <<"4">>, <<"5">>}

\* mapped_prompts[normalized]
mapped_prompts(key) == <<"menu question ">> \o key

\* <a href="CONTACT_US_URL" target="_blank" rel="noopener noreferrer">Contact Us</a>
ContactAnchor ==
  <<"<a", SP, "href=", DQ>> \o CONTACT_US_URL \o ForcedAttrs \o <<"Contact Us", "</a", ">">>

GREETING == <<"Hi there! ... You can ask things like: ...">>
BOUNDARY ==
  <<"I'm here to help with IoT and asset-tracking topics ... You can also visit ">>
    \o ContactAnchor \o <<" for direct help.">>
NO_ANSWER ==
  <<"I couldn't find a specific answer in our knowledge base. Please try another query or reach us via ">>
    \o ContactAnchor \o <<".">>
APOLOGY ==
  <<"Sorry - I hit a snag processing that. Please try again in a moment, or visit ">>
    \o ContactAnchor \o <<".">>

\* str(e) of the exception the generation service raises.
ExcText == "ResourceExhausted: 429 quota exceeded"

\* The handler that puts the exception's text in the answer.
OnException_raw(e) == <<"Error: ", e>>

\* except Exception as e: return the static apology.
OnException(e) == APOLOGY

\* A context that is never taken to be blank.
ContextBlank_never(context) == FALSE

\* not context.strip()
ContextBlank(context) == Strip(context) = <<>>

\* The texts p.text of the parts of all candidates that have content parts,
\* for the parts that have a text attribute.
RECURSIVE PartTexts(_)
PartTexts(parts) ==
  IF parts = <<>> THEN <<>>
  ELSE IF Head(parts).hasText THEN <<Head(parts).text>> \o PartTexts(Tail(parts))
  ELSE PartTexts(Tail(parts))

RECURSIVE StitchParts(_)
StitchParts(cands) ==
  IF cands = <<>> THEN <<>>
  ELSE IF Head(cands).parts # <<>>
       THEN PartTexts(Head(cands).parts) \o StitchParts(Tail(cands))
       ELSE StitchParts(Tail(cands))

\* The text ask_gemini takes from a response whose attribute reads do not raise.
ExtractText(resp) ==
  IF resp.textAcc = "str" /\ Strip(resp.text) # <<>>
  THEN Strip(resp.text)
  ELSE IF resp.candidates # <<>>
       THEN Strip(Join(StitchParts(resp.candidates), <<NL>>))
       ELSE <<>>

\* The body of the try block after generate_content returned resp.
\* hasattr(resp, "text") is False only for an AttributeError: any other
\* exception of the accessor leaves the try block for the handler.
AfterGenerate(resp) ==
  IF resp.textAcc = "raises" THEN OnException(ExcText)
  ELSE IF ExtractText(resp) = <<>> THEN NO_ANSWER
  ELSE _sanitize_anchor_html(ExtractText(resp))

(***************************************************************************)
(* Inputs of ask_gemini and the responses of the generation service.       *)
(***************************************************************************)
QueryInputs ==
  { <<SP, "Hi", SP>>, <<"hello">>, <<"HEY", NL>>, <<"hi", "hi">>, <<>>,
    <<"1">>, <<SP, "5">>, <<"6">>, <<"which gateway?">>, <<"hi", SP, "there">> }

RawChunk(t) == [isStr |-> TRUE, id |-> 0, url |-> <<>>, title |-> <<>>, text |-> t]

ChunkInputs ==
  { <<>>, <<Row(0)>>, <<Row(1), Row(2)>>, <<RawChunk(<<"raw passage">>)>>,
    <<[isStr |-> FALSE, id |-> 0, url |-> <<>>, title |-> <<>>, text |-> <<SP>>]>> }

GeneratedTexts ==
  { <<>>, <<SP, NL>>, <<SP, "An answer.", SP>>,
    <<"See", SP>> \o Anchor(<<>>, <<DQ>>, <<"https://", "evil.com">>, <<>>, <<"here">>),
    <<"See", SP>> \o Anchor(<<>>, <<DQ>>, RowUrls[3],
                            <<SP, "target=", DQ, "_blank", DQ>>, <<"here">>) }

NoParts == [parts |-> <<>>]
PartsOf(ps) == [parts |-> ps]
TextPart(t) == [hasText |-> TRUE, text |-> t]
OtherPart == [hasText |-> FALSE, text |-> <<>>]

CandidateLists ==
  { <<>>, <<NoParts>>, <<NoParts, NoParts>>, <<PartsOf(<<OtherPart>>)>>,
    <<PartsOf(<<TextPart(<<SP>>)>>)>>,
    <<NoParts, PartsOf(<<TextPart(<<"part one">>), OtherPart, TextPart(<<"part two", SP>>)>>)>> }

\* textAcc: reading resp.text gives a str, gives something that is no str,
\* raises AttributeError (the attribute is absent), or raises another exception.
Responses ==
  [textAcc : {"str"}, text : GeneratedTexts, candidates : CandidateLists]
  \cup [textAcc : {"nonstr", "absent", "raises"}, text : {<<>>}, candidates : CandidateLists]

NoResp == [textAcc |-> "none", text |-> <<>>, candidates |-> <<>>]
NoPrompt == [allowed |-> <<>>, context |-> <<>>, query |-> <<>>]

AskIdle ==
  /\ aQuery0 = <<>> /\ aQuery = <<>> /\ aChunks0 = <<>> /\ aChunks = <<>>
  /\ aContext = <<>> /\ aPrompt = NoPrompt
  /\ aPc = "idle" /\ aOutcome = "none" /\ aReturn = <<>>
  /\ aGen = "none" /\ aResp = NoResp
  /\ genCalls = 0 /\ retrieveCalls = 0

AskRun ==
  /\ aQuery0 \in QueryInputs /\ aQuery = aQuery0
  /\ aChunks0 \in ChunkInputs /\ aChunks = aChunks0
  /\ aContext = <<>> /\ aPrompt = NoPrompt
  /\ aPc = "start" /\ aOutcome = "none" /\ aReturn = <<>>
  /\ aGen = "none" /\ aResp = NoResp
  /\ genCalls = 0 /\ retrieveCalls = 0

\* From the wrapping of raw chunks to the call of generate_content: returns the
\* topic-boundary fallback for a blank context, else builds the prompt and
\* calls the generation service.
Assemble(query, chunks) ==
  LET wrapped == WrapRaw(chunks)
      context == _format_context(wrapped)
  IN  /\ aChunks' = wrapped
      /\ aContext' = context
      /\ IF ContextBlank(context)
         THEN /\ aReturn' = BOUNDARY
              /\ aOutcome' = "returned"
              /\ aPc' = "done"
              /\ UNCHANGED <<aPrompt, genCalls>>
         ELSE /\ aPrompt' = [allowed |-> _allowed_links(wrapped), context |-> context,
                             query |-> query]
              /\ genCalls' = genCalls + 1
              /\ aPc' = "generate"
              /\ UNCHANGED <<aReturn, aOutcome>>

\* normalized in {"hi", "hello", "hey", "halo"}: the static greeting.
AskGreeting ==
  /\ aPc = "start"
  /\ Normalize(aQuery) \in Greetings
  /\ aReturn' = GREETING
  /\ aOutcome' = "returned"
  /\ aPc' = "done"
  /\ UNCHANGED <<aQuery0, aQuery, aChunks0, aChunks, aContext, aPrompt, aGen, aResp,
                 genCalls, retrieveCalls, storeVars>>
  /\ AskFrame

\* normalized in mapped_prompts: the query is replaced and retrieve is called,
\* which calls the embedding service.
AskShortcut ==
  /\ aPc = "start"
  /\ Normalize(aQuery) \notin Greetings
  /\ Normalize(aQuery) \in MenuKeys
  /\ aQuery' = mapped_prompts(Normalize(aQuery))
  /\ retrieveCalls' = retrieveCalls + 1
  /\ aPc' = "retrieve"
  /\ UNCHANGED <<aQuery0, aChunks0, aChunks, aContext, aPrompt, aOutcome, aReturn,
                 aGen, aResp, genCalls, storeVars>>
  /\ AskFrame

\* Neither a greeting nor a menu key: the chunks passed in are used.
AskDirect ==
  /\ aPc = "start"
  /\ Normalize(aQuery) \notin Greetings
  /\ Normalize(aQuery) \notin MenuKeys
  /\ Assemble(aQuery, aChunks)
  /\ UNCHANGED <<aQuery0, aQuery, aChunks0, aGen, aResp, retrieveCalls, storeVars>>
  /\ AskFrame

\* retrieve(query) returns (k = 5) and ask_gemini goes on with its rows.
AskRetrieveReturns ==
  /\ aPc = "retrieve"
  /\ \E I \in SearchHits(ntotal, 5) :
       LET r == CollectHits(I, 1, meta, <<>>)
       IN  IF r.fault
           THEN /\ aOutcome' = "raised"
                /\ aPc' = "done"
                /\ UNCHANGED <<aChunks, aContext, aPrompt, aReturn, genCalls>>
           ELSE Assemble(aQuery, r.results)
  /\ UNCHANGED <<aQuery0, aQuery, aChunks0, aGen, aResp, retrieveCalls, storeVars>>
  /\ AskFrame

\* The embedding call inside retrieve raises: line 166 is outside the try
\* block, so the exception leaves ask_gemini.
AskRetrieveRaises ==
  /\ aPc = "retrieve"
  /\ aOutcome' = "raised"
  /\ aPc' = "done"
  /\ UNCHANGED <<aQuery0, aQuery, aChunks0, aChunks, aContext, aPrompt, aReturn,
                 aGen, aResp, genCalls, retrieveCalls, storeVars>>
  /\ AskFrame

\* generate_content returns a response.
GenerateReturns ==
  /\ aPc = "generate"
  /\ \E resp \in Responses :
       /\ aResp' = resp
       /\ aReturn' = AfterGenerate(resp)
  /\ aGen' = "responded"
  /\ aOutcome' = "returned"
  /\ aPc' = "done"
  /\ UNCHANGED <<aQuery0, aQuery, aChunks0, aChunks, aContext, aPrompt, genCalls,
                 retrieveCalls, storeVars>>
  /\ AskFrame

\* generate_content raises.
GenerateRaises ==
  /\ aPc = "generate"
  /\ aGen' = "raised"
  /\ aReturn' = OnException(ExcText)
  /\ aOutcome' = "returned"
  /\ aPc' = "done"
  /\ UNCHANGED <<aQuery0, aQuery, aChunks0, aChunks, aContext, aPrompt, aResp,
                 genCalls, retrieveCalls, storeVars>>
  /\ AskFrame

(***************************************************************************)
(* Claims about ask_gemini.                                                *)
(***************************************************************************)
\* sub occurs in s.
IsInfix(sub, s) ==
  \E i \in 1..(Len(s) - Len(sub) + 1) : SubSeq(s, i, i + Len(sub) - 1) = sub

\* C3: when the generation call, or the reading of the text of its response,
\* raises, ask_gemini returns the static apology with the contact-us link; the
\* exception does not reach the caller and its text is not in the answer.
C3_GenerationFailureGivesApology ==
  (aPc = "done" /\ (aGen = "raised" \/ (aGen = "responded" /\ aResp.textAcc = "raises")))
    => /\ aOutcome = "returned"
       /\ aReturn = APOLOGY
       /\ IsInfix(CONTACT_US_URL, aReturn)
       /\ ~Contains(aReturn, ExcText)

\* The generation service raised for a prompt built from passed-in chunks.
C3_Witness ==
  /\ aPc = "done"
  /\ aGen = "raised"
  /\ genCalls = 1
  /\ aReturn = APOLOGY

\* C4: a failure of the embedding service on the serving path never reaches
\* the caller of ask_gemini as an exception.
C4_EmbeddingFailureRecovered ==
  aPc = "done" => aOutcome = "returned"

\* A response has usable text when its text accessor gives a non-blank str or
\* the texts of its candidates' content parts, joined, are not blank.
UsableText(resp) ==
  \/ resp.textAcc = "str" /\ Strip(resp.text) # <<>>
  \/ Strip(Join(StitchParts(resp.candidates), <<NL>>)) # <<>>

\* C5: a response with no usable text (blank text, a text accessor that is
\* unavailable, candidates without content parts) gets the static "couldn't
\* find a specific answer" fallback, not the apology of the exception path.
C5_NoUsableTextGivesNoAnswer ==
  (aPc = "done" /\ aGen = "responded" /\ ~UsableText(aResp)) => aReturn = NO_ANSWER

\* C6: the generation service is called at most once, and only for a query
\* that is no greeting and a context that is not blank; a greeting returns the
\* static greeting with no retrieval and no generation; a blank context
\* returns the topic-boundary fallback, which holds the contact URL, with no
\* generation.
C6_GenerationOnlyWithContext ==
  /\ genCalls <= 1
  /\ genCalls = 1 => (Normalize(aQuery0) \notin Greetings /\ Strip(aContext) # <<>>)
  /\ (aPc = "done" /\ Normalize(aQuery0) \in Greetings)
       => (aOutcome = "returned" /\ aReturn = GREETING
           /\ retrieveCalls = 0 /\ genCalls = 0)
  /\ (aPc = "done" /\ aOutcome = "returned" /\ Normalize(aQuery0) \notin Greetings
        /\ Strip(aContext) = <<>>)
       => (aReturn = BOUNDARY /\ IsInfix(CONTACT_US_URL, aReturn) /\ genCalls = 0)

\* A greeting passed with retrieved chunks got the static greeting.
C6_Witness ==
  /\ aPc = "done"
  /\ Normalize(aQuery0) \in Greetings
  /\ aChunks0 # <<>>
  /\ aReturn = GREETING
  /\ genCalls = 0

(***************************************************************************)
(* Claims about the sanitizers.                                            *)
(***************************************************************************)
\* The host component of a URL: what follows the scheme's "//" (or, for a URL
\* written without a scheme, the start of the URL) up to the next "/", "?" or "#".
HostOf(url) ==
  LET u     == Strip(url)
      first == IF u # <<>> /\ u[1] = "https://" THEN 2 ELSE 1
      stop  == MinPos({j \in first..Len(u) : u[j] \in {"/", "?", "#"}})
  IN  IF stop = 0 THEN SubSeq(u, first, Len(u))
      ELSE SubSeq(u, first, stop - 1)

\* C1: _sanitize_url returns the homepage URL whenever the host component of
\* the input does not contain the trusted domain.
C1_UntrustedHostGetsHomepage ==
  (sKind = "url" /\ sPc >= 1 /\ ~Contains(HostOf(sIn), TRUSTED_DOMAIN))
    => sOut1 = HOMEPAGE_URL

\* The opening anchor tags of a text: "<a" followed by whitespace.
AnchorTags(s) == {i \in 1..(Len(s) - 1) : s[i] \in AOpen /\ s[i+1] \in Whitespace}

\* The tag at i is exactly <a href="URL" target="_blank" rel="noopener noreferrer">
\* with URL a fixed point of _sanitize_url.
ExactShapeAt(s, i) ==
  LET q == MinPos({j \in (i+4)..Len(s) : s[j] = DQ})
  IN  /\ i + 4 <= Len(s)
      /\ SubSeq(s, i, i + 3) = <<"<a", SP, "href=", DQ>>
      /\ q > i + 4
      /\ _sanitize_url(SubSeq(s, i + 4, q - 1)) = SubSeq(s, i + 4, q - 1)
      /\ SubSeq(s, q, q + Len(ForcedAttrs) - 1) = ForcedAttrs

\* C2: every anchor tag of the text returned by _sanitize_anchor_html has the
\* exact shape <a href="URL" target="_blank" rel="noopener noreferrer"> with
\* URL sanitized, whatever attributes, quoting or nesting the original had.
C2_EveryAnchorRewritten ==
  (sKind = "html" /\ sPc >= 1) => \A i \in AnchorTags(sOut1) : ExactShapeAt(sOut1, i)

\* C10: sanitizing a sanitized URL or sanitized markup changes nothing.
C10_SanitizeIdempotent ==
  sPc = 2 => sOut2 = sOut1

(***************************************************************************)
(* Specifications: one per component, the other components idle.           *)
(***************************************************************************)
AskNext ==
  \/ AskGreeting
  \/ AskShortcut
  \/ AskDirect
  \/ AskRetrieveReturns
  \/ AskRetrieveRaises
  \/ GenerateReturns
  \/ GenerateRaises

BuildNext ==
  \/ EmbedBatchReturns
  \/ EmbedBatchRaises
  \/ StackAndWrite

ChunkNext == SplitText

InitSan == SanRun /\ ChunkIdle /\ StoreIdle /\ RetIdle /\ AskIdle /\ BuildIdle

SpecSan == InitSan /\ [][SanNext]_vars

InitChunk == ChunkRun /\ SanIdle /\ StoreIdle /\ RetIdle /\ AskIdle /\ BuildIdle

SpecChunk == InitChunk /\ [][ChunkNext]_vars

InitRetrieve == RetRun /\ StoreAny /\ SanIdle /\ ChunkIdle /\ AskIdle /\ BuildIdle

SpecRetrieve == InitRetrieve /\ [][RetNext]_vars

InitAsk == AskRun /\ StoreAny /\ SanIdle /\ ChunkIdle /\ RetIdle /\ BuildIdle

SpecAsk == InitAsk /\ [][AskNext]_vars

InitBuild == BuildRun /\ StoreIdle /\ SanIdle /\ ChunkIdle /\ RetIdle /\ AskIdle

SpecBuild == InitBuild /\ [][BuildNext]_vars

====
